---- MODULE Spec2Model ----
(***************************************************************************)
(* Model of the IMPALA learning core: the V-trace estimator                *)
(* (src/src/VTrace.py, class VTrace) and the loss aggregator               *)
(* (src/src/IMPALA.py, class Impala).                                      *)
(*                                                                         *)
(* Numbers.  Tensor entries are exact rationals <<n, d>> (d > 0, lowest    *)
(* terms).  All inputs are dyadic, so every value the recursion produces   *)
(* within the bounds is exactly representable in float32 and the model     *)
(* computes what torch computes.  A log-probability is an integer k that   *)
(* stands for k * ln 2, so that exp(k * ln 2) = 2^k is a rational.         *)
(*                                                                         *)
(* Tensors.  A tensor of shape [T, B] is [T |-> t, B |-> b, v |-> f] with  *)
(* f a function from the time indices 0..t-1 (the source's indices) to     *)
(* rows, and a row a sequence of b entries.  Operations between rows       *)
(* broadcast as torch does (equal sizes, or one of them 1).                *)
(*                                                                         *)
(* Devices (.cuda(), .cpu(), .to()) and autograd (detach) are not          *)
(* modelled.                                                               *)
(***************************************************************************)
EXTENDS Integers, Sequences, FiniteSets, TLC

\* ---------------------------------------------------------------- bounds
MaxT == 2

\* ---------------------------------------------------- rational arithmetic
Abs(x) == IF x < 0 THEN -x ELSE x

RECURSIVE GCD(_, _)
GCD(a, b) == IF b = 0 THEN a ELSE GCD(b, a % b)

Norm(n, d) == LET g == GCD(Abs(n), d) IN <<n \div g, d \div g>>

RAdd(a, b) == Norm(a[1] * b[2] + b[1] * a[2], a[2] * b[2])
RSub(a, b) == Norm(a[1] * b[2] - b[1] * a[2], a[2] * b[2])
RMul(a, b) == Norm(a[1] * b[1], a[2] * b[2])
RLeq(a, b) == a[1] * b[2] <= b[1] * a[2]
RMin(a, b) == IF RLeq(a, b) THEN a ELSE b

Zero == <<0, 1>>
One  == <<1, 1>>
Half == <<1, 2>>
Two  == <<2, 1>>

RECURSIVE IPow(_, _)
IPow(b, n) == IF n = 0 THEN 1 ELSE b * IPow(b, n - 1)

\* torch.exp on a log-probability difference of k * ln 2
Exp(k) == IF k >= 0 THEN <<IPow(2, k), 1>> ELSE <<1, IPow(2, -k)>>

\* ------------------------------------------------------------- tensors
Tensor(t, b, f) == [T |-> t, B |-> b, v |-> f]
Tensors(t, b, Vals) == {Tensor(t, b, f) : f \in [0 .. t - 1 -> [1 .. b -> Vals]]}
Const(t, b, x) == Tensor(t, b, [j \in 0 .. t - 1 |-> [k \in 1 .. b |-> x]])
Empty == Tensor(0, 1, <<>>)

\* size of a broadcast dimension, -1 when the sizes do not broadcast
BDim(a, b) == IF a = b THEN a ELSE IF a = 1 THEN b ELSE IF b = 1 THEN a ELSE -1
RowAt(x, k) == IF Len(x) = 1 THEN x[1] ELSE x[k]
RowAdd(x, y) ==
    [k \in 1 .. BDim(Len(x), Len(y)) |-> RAdd(RowAt(x, k), RowAt(y, k))]
RowSub(x, y) ==
    [k \in 1 .. BDim(Len(x), Len(y)) |-> RSub(RowAt(x, k), RowAt(y, k))]
RowMul(x, y) ==
    [k \in 1 .. BDim(Len(x), Len(y)) |-> RMul(RowAt(x, k), RowAt(y, k))]
RowScale(s, x) == [k \in 1 .. Len(x) |-> RMul(s, x[k])]
TimeAt(x, j) == IF x.T = 1 THEN x.v[0] ELSE x.v[j]

\* ------------------------------------------------------- input universes
Discounts  == {Half, One}
Truncs     == {Half, One, Two}
ValueVals  == {Zero, One}
RewardVals == {Zero, One}
LogVals    == {-1, 0}
\* shapes [T, B] of the well-formed segments
Shapes     == {<<t, 1>> : t \in 0 .. MaxT} \cup {<<t, 2>> : t \in 0 .. 1}
\* shapes of the tensors handed to forward without regard to each other
AnyShapes  == (0 .. MaxT + 1) \X {1, 2}

NoObj == <<>>

VARIABLES est, ctorArgs, ctorErr, call, impala, implArgs, implErr, lcall
vars == <<est, ctorArgs, ctorErr, call, impala, implArgs, implErr, lcall>>

\* ------------------------------------------------------ VTrace.__init__
VTraceParams == {"discount_factor", "rho", "cis"}

\* VTraceNew without the assertion of line 27
VTraceNewUnchecked(kwargs) ==
    IF DOMAIN kwargs # VTraceParams
    THEN [err |-> "TypeError", obj |-> NoObj]
    ELSE [err |-> "none",
          obj |-> [rho |-> kwargs.rho, cis |-> kwargs.cis,
                   discount_factor |-> kwargs.discount_factor]]

VTraceNew(kwargs) ==
    IF DOMAIN kwargs # VTraceParams
    THEN [err |-> "TypeError", obj |-> NoObj]
    ELSE IF ~RLeq(kwargs.cis, kwargs.rho)
    THEN [err |-> "AssertionError", obj |-> NoObj]
    ELSE [err |-> "none",
          obj |-> [rho |-> kwargs.rho, cis |-> kwargs.cis,
                   discount_factor |-> kwargs.discount_factor]]

\* ------------------------------------------------------- VTrace.forward
\* ImportanceSampling without the behaviour policy: exp(target_log_policy)
ImportanceSamplingTargetOnly(tl, bl) ==
    Tensor(BDim(tl.T, bl.T), BDim(tl.B, bl.B),
           [j \in 0 .. BDim(tl.T, bl.T) - 1 |->
              [k \in 1 .. BDim(tl.B, bl.B) |-> Exp(RowAt(TimeAt(tl, j), k))]])

ImportanceSampling(tl, bl) ==
    Tensor(BDim(tl.T, bl.T), BDim(tl.B, bl.B),
           [j \in 0 .. BDim(tl.T, bl.T) - 1 |->
              [k \in 1 .. BDim(tl.B, bl.B) |->
                 Exp(RowAt(TimeAt(tl, j), k) - RowAt(TimeAt(bl, j), k))]])

\* Truncate with torch.max in place of torch.min
TruncateMax(bar, w) ==
    Tensor(w.T, w.B,
           [j \in 0 .. w.T - 1 |->
              [k \in 1 .. w.B |-> IF RLeq(bar, w.v[j][k]) THEN w.v[j][k] ELSE bar]])

Truncate(bar, w) ==
    Tensor(w.T, w.B, [j \in 0 .. w.T - 1 |-> [k \in 1 .. w.B |-> RMin(bar, w.v[j][k])]])

\* Bootstrap without the assignment of line 72
BootstrapMissing(tv) ==
    Tensor(tv.T, tv.B, [j \in 0 .. tv.T - 1 |-> [k \in 1 .. tv.B |-> Zero]])

Bootstrap(tv) ==
    Tensor(tv.T, tv.B,
           [j \in 0 .. tv.T - 1 |->
              IF j = tv.T - 1 THEN tv.v[j] ELSE [k \in 1 .. tv.B |-> Zero]])

\* LoopOrder without reversed(): range(size0 - 1)
LoopOrderForward(size0) == [n \in 1 .. size0 - 1 |-> n - 1]

\* reversed(range(size0 - 1)): the n-th index the loop visits, n = 1 .. size0-1
LoopOrder(size0) == [n \in 1 .. size0 - 1 |-> size0 - 1 - n]

IdleCall ==
    [pc |-> "idle", err |-> "none", self |-> NoObj,
     target_value |-> Empty, rewards |-> Empty,
     target_log_policy |-> Empty, behaviour_log_policy |-> Empty,
     vtrace |-> Empty, rhos |-> Empty, ciss |-> Empty,
     n |-> 0, written |-> <<>>]

Raise(f, e) == [f EXCEPT !.pc = "done", !.err = e]

\* lines 61-72
ForwardEnter(self, tv, r, tl, bl) ==
    LET f == [IdleCall EXCEPT !.self = self, !.target_value = tv, !.rewards = r,
                              !.target_log_policy = tl, !.behaviour_log_policy = bl]
    IN  IF BDim(tl.T, bl.T) = -1 \/ BDim(tl.B, bl.B) = -1
        THEN Raise(f, "RuntimeError")
        ELSE LET w == ImportanceSampling(tl, bl)
                 g == [f EXCEPT !.rhos = Truncate(self.rho, w),
                                !.ciss = Truncate(self.cis, w)]
             IN  IF tv.T = 0
                 THEN Raise(g, "IndexError")
                 ELSE [g EXCEPT !.vtrace = Bootstrap(tv), !.pc = "loop", !.n = 1]

\* Delta without the discount on target_value[i+1]
DeltaUndiscounted(f, i) ==
    RowMul(f.rhos.v[i],
           RowSub(RowAdd(f.rewards.v[i], f.target_value.v[i + 1]),
                  f.target_value.v[i]))

\* line 74
Delta(f, i) ==
    RowMul(f.rhos.v[i],
           RowSub(RowAdd(f.rewards.v[i],
                         RowScale(f.self.discount_factor, f.target_value.v[i + 1])),
                  f.target_value.v[i]))

\* line 75, right-hand side
Target(f, i) ==
    RowAdd(RowAdd(f.target_value.v[i], Delta(f, i)),
           RowMul(RowScale(f.self.discount_factor, f.ciss.v[i]),
                  RowSub(f.vtrace.v[i + 1], f.target_value.v[i + 1])))

\* batch size of the right-hand side of line 75, -1 when an operand pair
\* does not broadcast
TargetDim(f) ==
    LET bv == f.target_value.B
        bw == f.rhos.B
        br == f.rewards.B
    IN  BDim(BDim(bv, BDim(bw, BDim(br, bv))), BDim(bw, bv))

\* one iteration of the loop of lines 73-75
LoopBody(f) ==
    LET i == LoopOrder(f.target_value.T)[f.n]
    IN  IF i >= f.rhos.T \/ i >= f.rewards.T
        THEN Raise(f, "IndexError")
        ELSE IF TargetDim(f) # f.target_value.B
        THEN Raise(f, "RuntimeError")
        ELSE [f EXCEPT !.vtrace.v[i] = Target(f, i),
                       !.written = Append(@, i),
                       !.n = @ + 1]

LoopDone(f) == f.n > f.target_value.T - 1

\* line 78
Return(f) == [f EXCEPT !.pc = "done"]

RECURSIVE RunLoop(_)
RunLoop(f) ==
    IF f.pc # "loop" THEN f
    ELSE IF LoopDone(f) THEN Return(f)
    ELSE RunLoop(LoopBody(f))

Forward(self, tv, r, tl, bl) == RunLoop(ForwardEnter(self, tv, r, tl, bl))

\* ----------------------------------------------------- estimator actions
Segments ==
    UNION {Tensors(s[1] + 1, s[2], ValueVals) \X Tensors(s[1], s[2], RewardVals)
           \X Tensors(s[1], s[2], LogVals) \X Tensors(s[1], s[2], LogVals)
           : s \in Shapes}

Ragged ==
    {<<Const(a[1], a[2], One), Const(b[1], b[2], One),
       Const(c[1], c[2], 0), Const(d[1], d[2], -1)>>
     : a \in AnyShapes, b \in AnyShapes, c \in AnyShapes, d \in AnyShapes}

VTraceInit ==
    /\ call.pc = "idle"
    /\ ctorArgs = NoObj
    /\ \E d \in Discounts, r \in Truncs, c \in Truncs :
         LET kw == [discount_factor |-> d, rho |-> r, cis |-> c]
         IN  /\ ctorArgs' = kw
             /\ est' = VTraceNew(kw).obj
             /\ ctorErr' = VTraceNew(kw).err
    /\ UNCHANGED <<call, impala, implArgs, implErr, lcall>>

ForwardCall ==
    /\ est # NoObj
    /\ call.pc = "idle"
    /\ \E s \in Segments \cup Ragged :
         call' = ForwardEnter(est, s[1], s[2], s[3], s[4])
    /\ UNCHANGED <<est, ctorArgs, ctorErr, impala, implArgs, implErr, lcall>>

ForwardLoop ==
    /\ call.pc = "loop"
    /\ ~LoopDone(call)
    /\ call' = LoopBody(call)
    /\ UNCHANGED <<est, ctorArgs, ctorErr, impala, implArgs, implErr, lcall>>

ForwardReturn ==
    /\ call.pc = "loop"
    /\ LoopDone(call)
    /\ call' = Return(call)
    /\ UNCHANGED <<est, ctorArgs, ctorErr, impala, implArgs, implErr, lcall>>

\* ------------------------------------------------------- Impala.__init__
\* __init__ binds the attributes of lines 21-28 and then evaluates
\* VTrace(discount_factor=, rho=, cis=, sequence_length=) at lines 31-38.  When
\* that call raises, __init__ raises with it and the instance is left with the
\* attributes bound so far.  discount_factor is declared at line 16 and bound
\* nowhere.
ImpalaNew(a) ==
    LET o  == [device |-> a.device, model |-> a.model,
               entropy_coef |-> a.entropy_coef, value_coef |-> a.value_coef,
               sequence_length |-> a.sequence_length]
        vt == VTraceNew([discount_factor |-> a.discount_factor, rho |-> a.rho,
                         cis |-> a.cis, sequence_length |-> a.sequence_length])
    IN  IF vt.err # "none"
        THEN [err |-> vt.err, obj |-> o]
        ELSE [err |-> "none", obj |-> o @@ [vtrace |-> vt.obj]]

\* ----------------------------------------------------------- Impala.loss
\* x[:-1] and x[1:]
DropLast(x) ==
    IF x.T = 0 THEN x
    ELSE Tensor(x.T - 1, x.B, [j \in 0 .. x.T - 2 |-> x.v[j]])
DropFirst(x) ==
    IF x.T = 0 THEN x
    ELSE Tensor(x.T - 1, x.B, [j \in 0 .. x.T - 2 |-> x.v[j + 1]])

TOk(x, y) == BDim(x.T, y.T) # -1 /\ BDim(x.B, y.B) # -1
TAdd(x, y) ==
    Tensor(BDim(x.T, y.T), BDim(x.B, y.B),
           [j \in 0 .. BDim(x.T, y.T) - 1 |-> RowAdd(TimeAt(x, j), TimeAt(y, j))])
TSub(x, y) ==
    Tensor(BDim(x.T, y.T), BDim(x.B, y.B),
           [j \in 0 .. BDim(x.T, y.T) - 1 |-> RowSub(TimeAt(x, j), TimeAt(y, j))])
TMul(x, y) ==
    Tensor(BDim(x.T, y.T), BDim(x.B, y.B),
           [j \in 0 .. BDim(x.T, y.T) - 1 |-> RowMul(TimeAt(x, j), TimeAt(y, j))])
TScale(s, x) == Tensor(x.T, x.B, [j \in 0 .. x.T - 1 |-> RowScale(s, x.v[j])])

RECURSIVE RowSum(_)
RowSum(x) == IF x = <<>> THEN Zero ELSE RAdd(Head(x), RowSum(Tail(x)))
RECURSIVE TSumTo(_, _)
TSumTo(x, t) == IF t = 0 THEN Zero ELSE RAdd(TSumTo(x, t - 1), RowSum(x.v[t - 1]))
TSum(x) == TSumTo(x, x.T)

\* a log-probability k (standing for k * ln 2) as the rational coefficient of ln 2
LogCoef(x) == Tensor(x.T, x.B, [j \in 0 .. x.T - 1 |-> [k \in 1 .. x.B |-> <<x.v[j][k], 1>>]])

IdleLoss ==
    [pc |-> "idle", err |-> "none", obsT |-> 0,
     rewards |-> Empty, behaviour_log_probs |-> Empty,
     target_log_probs |-> Empty, target_entropy |-> Empty, target_value |-> Empty,
     modelCalls |-> 0, vtraceCalls |-> 0,
     v_targets |-> Empty, rhos |-> Empty,
     loss |-> [ln2 |-> Zero, one |-> Zero],
     detached_losses |-> [policy |-> Zero, value |-> Zero, entropy |-> Zero]]

\* ObsLenOk without the bootstrap step
ObsLenOkOffByOne(self, obsT) == obsT = self.sequence_length

\* line 80
ObsLenOk(self, obsT) == obsT = self.sequence_length + 1

\* lines 100-126; the policy term is a multiple of ln 2, kept apart from the
\* rational terms
Losses(self, f, v_targets, rhos) ==
    LET d          == TSub(v_targets, f.target_value)
        loss_value == TSum(TMul(d, d))
    IN  IF "discount_factor" \notin DOMAIN self
        THEN Raise(f, "AttributeError")
        ELSE LET gv == TScale(self.discount_factor, DropFirst(v_targets))
                 tv == DropLast(f.target_value)
                 lp == LogCoef(DropLast(f.target_log_probs))
             IN  IF ~TOk(f.rewards, gv) \/ ~TOk(TAdd(f.rewards, gv), tv)
                    \/ ~TOk(rhos, lp)
                    \/ ~TOk(TMul(rhos, lp), TSub(TAdd(f.rewards, gv), tv))
                 THEN Raise(f, "RuntimeError")
                 ELSE LET advantage   == TSub(TAdd(f.rewards, gv), tv)
                          loss_policy == RSub(Zero, TSum(TMul(TMul(rhos, lp), advantage)))
                          entropy     == TSum(DropLast(f.target_entropy))
                      IN  [f EXCEPT !.pc = "done",
                                    !.loss = [ln2 |-> loss_policy,
                                              one |-> RSub(RMul(self.value_coef, loss_value),
                                                           RMul(self.entropy_coef, entropy))],
                                    !.detached_losses = [policy |-> loss_policy,
                                                         value |-> loss_value,
                                                         entropy |-> entropy]]

\* lines 90-126
LossTail(self, f) ==
    IF "vtrace" \notin DOMAIN self
    THEN Raise(f, "AttributeError")
    ELSE LET c == Forward(self.vtrace, f.target_value, f.rewards,
                          DropLast(f.target_log_probs), f.behaviour_log_probs)
             g == [f EXCEPT !.vtraceCalls = @ + 1]
         IN  IF c.err # "none"
             THEN Raise(g, c.err)
             ELSE Losses(self, [g EXCEPT !.v_targets = c.vtrace, !.rhos = c.rhos],
                         c.vtrace, c.rhos)

\* ---------------------------------------------------- aggregator actions
Coefs == {Zero, Half}

ImpalaInit ==
    /\ lcall.pc = "idle"
    /\ implArgs = NoObj
    /\ \E sl \in 1 .. MaxT, ec \in Coefs, d \in Discounts, r \in Truncs, c \in Truncs :
         LET a == [sequence_length |-> sl, entropy_coef |-> ec, value_coef |-> One,
                   discount_factor |-> d, model |-> "model", rho |-> r, cis |-> c,
                   device |-> "cuda"]
         IN  /\ implArgs' = a
             /\ impala' = ImpalaNew(a).obj
             /\ implErr' = ImpalaNew(a).err
    /\ UNCHANGED <<est, ctorArgs, ctorErr, call, lcall>>

\* the call and the assertion of line 80
LossCall ==
    /\ impala # NoObj
    /\ lcall.pc = "idle"
    /\ \E obsT \in 0 .. MaxT + 2 :
         \E r \in Tensors(IF obsT = 0 THEN 0 ELSE obsT - 1, 1, RewardVals),
            b \in {Const(IF obsT = 0 THEN 0 ELSE obsT - 1, 1, x) : x \in LogVals} :
           LET f == [IdleLoss EXCEPT !.obsT = obsT, !.rewards = r,
                                     !.behaviour_log_probs = b]
           IN  lcall' = IF ObsLenOk(impala, obsT)
                        THEN [f EXCEPT !.pc = "l83"]
                        ELSE Raise(f, "AssertionError")
    /\ UNCHANGED <<est, ctorArgs, ctorErr, call, impala, implArgs, implErr>>

\* lines 83-87: the external model yields one entry per step of obs
LossModel ==
    /\ lcall.pc = "l83"
    /\ \E lp \in Tensors(lcall.obsT, 1, LogVals), tv \in Tensors(lcall.obsT, 1, ValueVals) :
         lcall' = [lcall EXCEPT !.pc = "l90", !.modelCalls = @ + 1,
                                !.target_log_probs = lp,
                                !.target_entropy = Const(lcall.obsT, 1, One),
                                !.target_value = tv]
    /\ UNCHANGED <<est, ctorArgs, ctorErr, call, impala, implArgs, implErr>>

LossRest ==
    /\ lcall.pc = "l90"
    /\ lcall' = LossTail(impala, lcall)
    /\ UNCHANGED <<est, ctorArgs, ctorErr, call, impala, implArgs, implErr>>

Init ==
    /\ est = NoObj
    /\ ctorArgs = NoObj
    /\ ctorErr = "none"
    /\ call = IdleCall
    /\ impala = NoObj
    /\ implArgs = NoObj
    /\ implErr = "none"
    /\ lcall = IdleLoss

NextV == VTraceInit \/ ForwardCall \/ ForwardLoop \/ ForwardReturn

SpecV == Init /\ [][NextV]_vars

NextI == ImpalaInit \/ LossCall \/ LossModel \/ LossRest

SpecI == Init /\ [][NextI]_vars

\* ================================================================ claims
\* shorthand for the frame of the forward call
SegT      == call.target_value.T - 1
SegB      == call.target_value.B
Returned  == call.pc = "done" /\ call.err = "none"
Weighted  == call.pc = "loop" \/ Returned
WellFormed ==
    /\ call.target_value.T >= 1
    /\ call.rewards.T = SegT /\ call.rewards.B = SegB
    /\ call.target_log_policy.T = SegT /\ call.target_log_policy.B = SegB
    /\ call.behaviour_log_policy.T = SegT /\ call.behaviour_log_policy.B = SegB
OnPolicy  == call.target_log_policy = call.behaviour_log_policy
Gamma     == call.self.discount_factor

RECURSIVE RPow(_, _)
RPow(x, n) == IF n = 0 THEN One ELSE RMul(x, RPow(x, n - 1))

\* sum_{m=0}^{n} Gamma^m * rewards[i+m][k]
RECURSIVE RewardSum(_, _, _)
RewardSum(i, k, n) ==
    IF n < 0 THEN Zero
    ELSE RAdd(RewardSum(i, k, n - 1), RMul(RPow(Gamma, n), call.rewards.v[i + n][k]))

NStepReturn(i, k) ==
    RAdd(RewardSum(i, k, SegT - 1 - i),
         RMul(RPow(Gamma, SegT - i), call.target_value.v[SegT][k]))

\* C1: on-policy, with rho_bar >= 1 and cis_bar >= 1 and T >= 1, every
\* v_targets[i], i in 0..T, is the n-step bootstrapped return
\* sum_k gamma^k r[i+k] + gamma^(T-i) V[T].
C1_OnPolicyReduction ==
    (Returned /\ WellFormed /\ SegT >= 1 /\ OnPolicy
       /\ RLeq(One, call.self.rho) /\ RLeq(One, call.self.cis))
    => \A i \in 0 .. SegT, k \in 1 .. SegB : call.vtrace.v[i][k] = NStepReturn(i, k)

C1_Witness ==
    /\ Returned /\ WellFormed /\ SegT >= 2 /\ OnPolicy
    /\ Gamma = Half /\ call.self.rho = Two /\ call.self.cis = One
    /\ call.rewards.v[1][1] = One /\ call.target_value.v[SegT][1] = One
    /\ call.target_value.v[0][1] = One
    /\ call.vtrace.v[0][1] = NStepReturn(0, 1)

\* C2: every truncated weight lies in [0, its cap], c <= rho, and each is
\* the importance ratio or its cap.
C2_TruncationBound ==
    Weighted =>
      \A j \in 0 .. call.rhos.T - 1, k \in 1 .. call.rhos.B :
        LET rho == call.rhos.v[j][k]
            c   == call.ciss.v[j][k]
        IN  /\ RLeq(Zero, rho) /\ RLeq(rho, call.self.rho)
            /\ RLeq(Zero, c) /\ RLeq(c, call.self.cis)
            /\ RLeq(c, rho)
            /\ (c = call.self.cis \/ c = rho)
            /\ (rho = call.self.rho => c = call.self.cis)

C2_Witness ==
    /\ Returned /\ WellFormed /\ SegT >= 1
    /\ \E j \in 0 .. SegT - 1 :
         /\ call.ciss.v[j][1] = call.self.cis
         /\ call.ciss.v[j][1] # call.rhos.v[j][1]
         /\ call.rhos.v[j][1] # call.self.rho

\* C3: from the bootstrap assignment on, v_targets[T] is target_value[T], and
\* the loop never writes index T.
C3_BootstrapIdentity ==
    Weighted =>
      /\ call.vtrace.v[SegT] = call.target_value.v[SegT]
      /\ \A m \in 1 .. Len(call.written) : call.written[m] # SegT

C3_Witness ==
    /\ Returned /\ WellFormed /\ SegT >= 1
    /\ call.target_value.v[SegT][1] = One
    /\ call.vtrace.v[SegT - 1] # call.target_value.v[SegT - 1]
    /\ Len(call.written) = SegT

\* C4: a construction with rho_bar < cis_bar raises and binds no estimator;
\* every forward call runs on an estimator with rho_bar >= cis_bar, and
\* forward itself never raises the construction's assertion.
C4_ConfigCheckedAtConstruction ==
    /\ (ctorArgs # NoObj /\ ~RLeq(ctorArgs.cis, ctorArgs.rho))
         => (ctorErr = "AssertionError" /\ est = NoObj)
    /\ est # NoObj => RLeq(est.cis, est.rho)
    /\ call.pc # "idle" => RLeq(call.self.cis, call.self.rho)
    /\ call.err # "AssertionError"

C4_Witness ==
    /\ ctorArgs # NoObj
    /\ ctorArgs.rho = Half /\ ctorArgs.cis = Two
    /\ ctorErr = "AssertionError"
    /\ est = NoObj

\* C6: a forward call on malformed shapes ends in an error, never in a
\* result.
C6_MalformedShapesFail ==
    (call.pc = "done" /\ ~WellFormed) => call.err # "none"

\* C8 (as stated): on-policy, rho[i] = c[i] = min(rho_bar, 1) = min(cis_bar, 1).
C8_OnPolicyWeightsEqual ==
    (Weighted /\ WellFormed /\ OnPolicy) =>
      \A j \in 0 .. SegT - 1, k \in 1 .. SegB :
        /\ call.rhos.v[j][k] = call.ciss.v[j][k]
        /\ call.ciss.v[j][k] = RMin(call.self.rho, One)
        /\ RMin(call.self.rho, One) = RMin(call.self.cis, One)

\* C8 (amended): on-policy, rho[i] = min(rho_bar, 1) and c[i] = min(cis_bar, 1);
\* the two agree exactly when cis_bar >= 1 or rho_bar = cis_bar.
C8_OnPolicyWeights ==
    (Weighted /\ WellFormed /\ OnPolicy) =>
      \A j \in 0 .. SegT - 1, k \in 1 .. SegB :
        /\ call.rhos.v[j][k] = RMin(call.self.rho, One)
        /\ call.ciss.v[j][k] = RMin(call.self.cis, One)
        /\ (call.rhos.v[j][k] = call.ciss.v[j][k])
             <=> (RLeq(One, call.self.cis) \/ call.self.rho = call.self.cis)

C8_Witness ==
    /\ Returned /\ WellFormed /\ OnPolicy /\ SegT >= 1
    /\ call.self.rho = Two /\ call.self.cis = Half
    /\ call.target_log_policy.v[0][1] = -1
    /\ call.rhos.v[0][1] = One /\ call.ciss.v[0][1] = Half

\* the recursion of the claim, on the returned buffers
Recursion(i, k) ==
    RAdd(RAdd(call.target_value.v[i][k],
              RMul(call.rhos.v[i][k],
                   RSub(RAdd(call.rewards.v[i][k],
                             RMul(Gamma, call.target_value.v[i + 1][k])),
                        call.target_value.v[i][k]))),
         RMul(RMul(Gamma, call.ciss.v[i][k]),
              RSub(call.vtrace.v[i + 1][k], call.target_value.v[i + 1][k])))

OneStep(k) ==
    RAdd(call.target_value.v[0][k],
         RMul(call.rhos.v[0][k],
              RSub(RAdd(call.rewards.v[0][k], RMul(Gamma, call.target_value.v[1][k])),
                   call.target_value.v[0][k])))

\* C9: the loop writes T-1, T-2, ..., 0 in that order, each once; on return
\* every v_targets[i], i < T, satisfies the recursion on the final
\* v_targets[i+1]; for T = 1 it is the one-step correction.
C9_BackwardRecursion ==
    /\ (Weighted /\ WellFormed) =>
         /\ Len(call.written) <= SegT
         /\ \A m \in 1 .. Len(call.written) : call.written[m] = SegT - m
    /\ (Returned /\ WellFormed) =>
         /\ Len(call.written) = SegT
         /\ \A i \in 0 .. SegT - 1, k \in 1 .. SegB :
              call.vtrace.v[i][k] = Recursion(i, k)
         /\ SegT = 1 => \A k \in 1 .. SegB : call.vtrace.v[0][k] = OneStep(k)

C9_Witness ==
    /\ Returned /\ WellFormed /\ SegT >= 2
    /\ call.written[1] = SegT - 1 /\ call.written[SegT] = 0
    /\ call.vtrace.v[SegT - 1][1] # call.target_value.v[SegT - 1][1]
    /\ call.vtrace.v[0][1] = Recursion(0, 1)
    /\ call.vtrace.v[0][1] # call.target_value.v[0][1]

\* shorthand for the frame of the loss call
LossSegmentOk ==
    /\ lcall.obsT = impala.sequence_length + 1
    /\ lcall.rewards.T = lcall.obsT - 1
    /\ lcall.behaviour_log_probs.T = lcall.obsT - 1
ConfigOk ==
    /\ implArgs.sequence_length >= 1
    /\ RLeq(implArgs.cis, implArgs.rho) /\ ~RLeq(implArgs.cis, Zero)
    /\ ~RLeq(implArgs.discount_factor, Zero) /\ RLeq(implArgs.discount_factor, One)
    /\ RLeq(Zero, implArgs.entropy_coef) /\ RLeq(Zero, implArgs.value_coef)

\* C5: a loss call whose obs has a leading dimension other than
\* sequence_length + 1 ends in the assertion's error with the model and the
\* estimator not invoked.
C5_ShapeValidation ==
    (lcall.pc # "idle" /\ lcall.obsT # impala.sequence_length + 1)
    => /\ lcall.pc = "done" /\ lcall.err = "AssertionError"
       /\ lcall.modelCalls = 0 /\ lcall.vtraceCalls = 0

C5_Witness ==
    /\ lcall.pc = "done" /\ lcall.err = "AssertionError"
    /\ lcall.obsT = impala.sequence_length + 2
    /\ lcall.modelCalls = 0

\* the components of the claim, on the frame of the loss call
ValueLoss ==
    TSum(TMul(TSub(lcall.v_targets, lcall.target_value),
                   TSub(lcall.v_targets, lcall.target_value)))
Advantage(i) ==
    RSub(RAdd(lcall.rewards.v[i][1],
              RMul(implArgs.discount_factor, lcall.v_targets.v[i + 1][1])),
         lcall.target_value.v[i][1])
RECURSIVE PolicyLoss(_)
PolicyLoss(n) ==
    IF n = 0 THEN Zero
    ELSE RSub(PolicyLoss(n - 1),
              RMul(RMul(lcall.rhos.v[n - 1][1], <<lcall.target_log_probs.v[n - 1][1], 1>>),
                   Advantage(n - 1)))
RECURSIVE Entropy(_)
Entropy(n) ==
    IF n = 0 THEN Zero ELSE RAdd(Entropy(n - 1), lcall.target_entropy.v[n - 1][1])

\* C7: every loss call on a valid segment returns
\* policy_loss + value_coef * value_loss - entropy_coef * entropy and the
\* three components.
C7_TotalLoss ==
    (lcall.pc = "done" /\ LossSegmentOk) =>
      /\ lcall.err = "none"
      /\ lcall.detached_losses = [policy  |-> PolicyLoss(lcall.obsT - 1),
                                  value   |-> ValueLoss,
                                  entropy |-> Entropy(lcall.obsT - 1)]
      /\ lcall.loss = [ln2 |-> PolicyLoss(lcall.obsT - 1),
                       one |-> RSub(RMul(implArgs.value_coef, ValueLoss),
                                    RMul(implArgs.entropy_coef, Entropy(lcall.obsT - 1)))]

\* C10: with a valid configuration the construction succeeds, binding the
\* estimator and the discount factor, and a loss call on a valid segment
\* returns without an error.
C10_ConstructAndLoss ==
    /\ (implArgs # NoObj /\ ConfigOk) =>
         /\ implErr = "none"
         /\ "vtrace" \in DOMAIN impala
         /\ "discount_factor" \in DOMAIN impala
    /\ (lcall.pc = "done" /\ ConfigOk /\ LossSegmentOk) => lcall.err = "none"

====
